---------------------------- MODULE Spec2Model ----------------------------
(***************************************************************************)
(* Model of src/server.js: the socket.io presence server of the shared     *)
(* reading tool.  The state is the three process-wide maps (rooms,         *)
(* roomColors, historicalPaths), the two closure variables of every        *)
(* connection (currentRoom, userColor) and the room membership socket.io   *)
(* keeps for every socket.  Every inbound event is one action: node runs a *)
(* handler to completion before it takes the next event.                   *)
(*                                                                         *)
(* Room ids are non-empty strings, for which the test `if (currentRoom)`   *)
(* is the test `currentRoom !== null`.                                     *)
(***************************************************************************)
EXTENDS Integers, Sequences, FiniteSets, TLC

(***************************************************************************)
(* Bounds of the model.                                                    *)
(***************************************************************************)
\* Math.random() is drawn from {0/R, 1/R, ..., (R-1)/R}, R = RandomResolution.
RandomResolution == 2
\* join-room events the server handles in Spec and SpecTrail.
MaxJoins == 3
\* join-room events the server handles in SpecHistory.
MaxHistoryJoins == 2
\* join-room events the server handles in SpecColor.
MaxColorJoins == 12
\* Accepted save-path and save-selected-words events.
MaxSaves == 2
\* Accepted moves per Presence in Spec (the trail is exercised in SpecTrail).
MaxMovesMain == 1
\* Accepted moves per Presence in SpecTrail.
MaxMoves == 52
\* join-room events the server handles in SpecDrop.
MaxDropJoins == 1
\* Calls of getAvailableColor in SpecAlloc.
MaxAllocCalls == 2

\* Socket ids, room ids and the payloads the clients send.
Conns == {"s1", "s2", "s3"}
Rooms == {"dog", "cat"}
WordIndexes == {5}
Paths == {<<1, 2, 3>>, <<4>>}
SelectedWordLists == {<< >>, <<"dog">>}

\* JavaScript's null (closure variables before the first join).
Null == "null"

(***************************************************************************)
(* The palette: server.js:18-32.                                           *)
(***************************************************************************)
colorInstrumentMap ==
    ( "#970302" :> "AMSynth" ) @@
    ( "#E679A6" :> "DuoSynth" ) @@
    ( "#EE8019" :> "FMSynth" ) @@
    ( "#F0BC00" :> "MembraneSynth" ) @@
    ( "#5748B5" :> "PolySynth" ) @@
    ( "#305D70" :> "MonoSynth" ) @@
    ( "#0E65C0" :> "NoiseSynth" ) @@
    ( "#049DFF" :> "PluckSynth" ) @@
    ( "#E9E7C4" :> "PolySynth" ) @@
    ( "#308557" :> "Synth" ) @@
    ( "#71D1B3" :> "FMSynth" )

\* Object.keys(colorInstrumentMap): the keys in insertion order.
colorPalette ==
    << "#970302", "#E679A6", "#EE8019", "#F0BC00", "#5748B5", "#305D70",
       "#0E65C0", "#049DFF", "#E9E7C4", "#308557", "#71D1B3" >>

(***************************************************************************)
(* JavaScript Map / object operations on TLA+ functions.                   *)
(***************************************************************************)
MapHas(m, k) == k \in DOMAIN m
MapSet(m, k, v) == [x \in (DOMAIN m) \cup {k} |-> IF x = k THEN v ELSE m[x]]
MapDelete(m, k) == [x \in (DOMAIN m) \ {k} |-> m[x]]
EmptyMap == << >>

VARIABLES
    status,           \* socket id -> "idle" | "open" | "closed"
    currentRoom,      \* socket id -> the closure variable currentRoom
    userColor,        \* socket id -> the closure variable userColor
    rooms,            \* room id -> [users: socket id -> Presence]
    roomColors,       \* room id -> set of used colors
    historicalPaths,  \* room id -> sequence of [userId, data] in insertion order
    sockRooms,        \* socket id -> the socket.io rooms the socket is in
    outbox,           \* socket id -> the events the last handler sent to it
    lastEvent,        \* the inbound event the last handler ran for
    moves,            \* socket id -> the wordIndex of every accepted move
                      \*   since its Presence was created (history variable)
    joins,            \* the number of join-room events handled so far
    saves,            \* the number of accepted save events so far
    lastSaved         \* room id -> socket id -> << >>, or <<p>> for the last path p
                      \*   the socket saved in the room (history variable)

vars == << status, currentRoom, userColor, rooms, roomColors, historicalPaths,
           sockRooms, outbox, lastEvent, moves, joins, saves, lastSaved >>

(***************************************************************************)
(* getAvailableColor (server.js:46-65).  rnd is the value Math.random()    *)
(* returns, as the numerator of rnd / RandomResolution.  The result is the *)
(* color returned and roomColors after the call.                           *)
(***************************************************************************)
RandomDraws == 0 .. (RandomResolution - 1)

\* Math.floor(Math.random() * n), as a 1-based index
RandomIndex(rnd, n) == ((rnd * n) \div RandomResolution) + 1

\* getAvailableColor without the filter on usedColors.
getAvailableColor_anyColor(rc, roomId, rnd) ==
    LET rc1 == IF MapHas(rc, roomId) THEN rc ELSE MapSet(rc, roomId, {})
        randomColor == colorPalette[RandomIndex(rnd, Len(colorPalette))]
    IN  [ color |-> randomColor,
          roomColors |-> MapSet(rc1, roomId, rc1[roomId] \cup {randomColor}) ]

getAvailableColor(rc, roomId, rnd) ==
    LET rc1 == IF MapHas(rc, roomId) THEN rc ELSE MapSet(rc, roomId, {})
        usedColors == rc1[roomId]
        availableColors == SelectSeq(colorPalette, LAMBDA color : color \notin usedColors)
    IN  IF Len(availableColors) > 0
        THEN LET randomColor == availableColors[RandomIndex(rnd, Len(availableColors))]
             IN  [ color |-> randomColor,
                   roomColors |-> MapSet(rc1, roomId, usedColors \cup {randomColor}) ]
        ELSE [ color |-> colorPalette[RandomIndex(rnd, Len(colorPalette))],
               roomColors |-> rc1 ]

(***************************************************************************)
(* releaseColor (server.js:68-72).                                         *)
(***************************************************************************)
releaseColor(rc, roomId, color) ==
    IF MapHas(rc, roomId)
    THEN MapSet(rc, roomId, rc[roomId] \ {color})
    ELSE rc

\* removeUserFromRoom without the clean-up of empty rooms.
removeUserFromRoom_keepEmpty(rms, rc, roomId, socketId) ==
    IF ~MapHas(rms, roomId)
    THEN [ rooms |-> rms, roomColors |-> rc ]
    ELSE [ rooms |-> MapSet(rms, roomId,
                            [users |-> MapDelete(rms[roomId].users, socketId)]),
           roomColors |-> rc ]

\* removeUserFromRoom without `roomColors.delete(roomId)`.
removeUserFromRoom_keepColors(rms, rc, roomId, socketId) ==
    IF ~MapHas(rms, roomId)
    THEN [ rooms |-> rms, roomColors |-> rc ]
    ELSE LET users == MapDelete(rms[roomId].users, socketId)
         IN  IF DOMAIN users = {}
             THEN [ rooms |-> MapDelete(rms, roomId), roomColors |-> rc ]
             ELSE [ rooms |-> MapSet(rms, roomId, [users |-> users]),
                    roomColors |-> rc ]

\* removeUserFromRoom without `delete room.users[socketId]`.
removeUserFromRoom_keepUser(rms, rc, roomId, socketId) ==
    [ rooms |-> rms, roomColors |-> rc ]

(***************************************************************************)
(* removeUserFromRoom (server.js:300-314): rooms and roomColors after it.  *)
(***************************************************************************)
removeUserFromRoom(rms, rc, roomId, socketId) ==
    IF ~MapHas(rms, roomId)
    THEN [ rooms |-> rms, roomColors |-> rc ]
    ELSE LET users == MapDelete(rms[roomId].users, socketId)
         IN  IF DOMAIN users = {}
             THEN [ rooms |-> MapDelete(rms, roomId),
                    roomColors |-> MapDelete(rc, roomId) ]
             ELSE [ rooms |-> MapSet(rms, roomId, [users |-> users]),
                    roomColors |-> rc ]

\* io.to(room).emit instead of socket.to(room).emit: the sender gets it too.
BroadcastTo_includeSender(ob, sr, room, socketId, event, payload) ==
    [c \in Conns |->
        IF room \in sr[c]
        THEN Append(ob[c], [event |-> event, payload |-> payload])
        ELSE ob[c]]

\* join-room without `socket.join(roomId)`.
SocketJoin_forgotten(sr, socketId, room) == sr

\* join-room without `socket.leave(currentRoom)`.
SocketLeave_forgotten(sr, socketId, room) == sr

(***************************************************************************)
(* socket.io primitives: socket.emit, socket.to(room).emit, socket.leave   *)
(* and socket.join.                                                        *)
(***************************************************************************)
NoEvents == [c \in Conns |-> << >>]

Emit(ob, socketId, event, payload) ==
    [ob EXCEPT ![socketId] = Append(@, [event |-> event, payload |-> payload])]

\* socket.to(room).emit: every socket in the room except the sender
BroadcastTo(ob, sr, room, socketId, event, payload) ==
    [c \in Conns |->
        IF c # socketId /\ room \in sr[c]
        THEN Append(ob[c], [event |-> event, payload |-> payload])
        ELSE ob[c]]

SocketLeave(sr, socketId, room) == [sr EXCEPT ![socketId] = @ \ {room}]
SocketJoin(sr, socketId, room) == [sr EXCEPT ![socketId] = @ \cup {room}]

(***************************************************************************)
(* The state after the server has started: no connection, no room.         *)
(***************************************************************************)
Init ==
    /\ status = [c \in Conns |-> "idle"]
    /\ currentRoom = [c \in Conns |-> Null]
    /\ userColor = [c \in Conns |-> Null]
    /\ rooms = EmptyMap
    /\ roomColors = EmptyMap
    /\ historicalPaths = EmptyMap
    /\ sockRooms = [c \in Conns |-> {}]
    /\ outbox = NoEvents
    /\ lastEvent = [type |-> "none", id |-> Null, room |-> Null, arg |-> Null]
    /\ moves = [c \in Conns |-> << >>]
    /\ joins = 0
    /\ saves = 0
    /\ lastSaved = [r \in Rooms |-> [c \in Conns |-> << >>]]

(***************************************************************************)
(* io.on('connection') (server.js:74-78).                                  *)
(***************************************************************************)
Connect(c) ==
    /\ status[c] = "idle"
    /\ status' = [status EXCEPT ![c] = "open"]
    /\ currentRoom' = [currentRoom EXCEPT ![c] = Null]
    /\ userColor' = [userColor EXCEPT ![c] = Null]
    /\ outbox' = NoEvents
    /\ lastEvent' = [type |-> "connection", id |-> c, room |-> currentRoom[c],
                     arg |-> Null]
    /\ UNCHANGED << rooms, roomColors, historicalPaths, sockRooms, moves, joins,
                    saves, lastSaved >>

(***************************************************************************)
(* The payloads join-room builds from historicalPaths (server.js:125-153). *)
(***************************************************************************)
pathsArray(hp, roomId) ==
    IF MapHas(hp, roomId)
    THEN [ i \in 1..Len(hp[roomId]) |->
             [ userId |-> hp[roomId][i].userId,
               color |-> hp[roomId][i].data.color,
               path |-> hp[roomId][i].data.path ] ]
    ELSE << >>

HasSelectedWords(data) ==
    /\ "selectedWords" \in DOMAIN data
    /\ Len(data.selectedWords) > 0

selectedPathsArray(hp, roomId) ==
    IF MapHas(hp, roomId)
    THEN LET selected == SelectSeq(hp[roomId], LAMBDA e : HasSelectedWords(e.data))
         IN  [ i \in 1..Len(selected) |->
                 [ userId |-> selected[i].userId,
                   color |-> selected[i].data.color,
                   selectedWords |-> selected[i].data.selectedWords ] ]
    ELSE << >>

\* The Presence join-room stores for the joining socket (server.js:109-115).
newPresence(socketId, color) ==
    [ id |-> socketId, color |-> color, instrument |-> colorInstrumentMap[color],
      position |-> 0, trail |-> << >> ]

\* join-room sending room-users before it adds the joining socket to the room.
joinRoomEmits_usersBeforeJoin(c, roomId, users, hp, sr) ==
    LET presence == users[c]
        ob1 == Emit([d \in Conns |-> << >>], c, "user-color", presence.color)
        ob2 == Emit(ob1, c, "user-instrument", presence.instrument)
        ob3 == Emit(ob2, c, "room-users", MapDelete(users, c))
        ob4 == Emit(ob3, c, "historical-paths", [paths |-> pathsArray(hp, roomId)])
        ob5 == Emit(ob4, c, "saved-selected-paths",
                    [selectedPaths |-> selectedPathsArray(hp, roomId)])
    IN  [d \in Conns |->
            IF d # c /\ roomId \in sr[d]
            THEN Append(ob5[d], [event |-> "user-joined", payload |-> presence])
            ELSE ob5[d]]

\* What join-room sends (server.js:117-162): users is room.users after the
\* joining socket was added to it, sr the socket.io rooms after socket.join.
joinRoomEmits(c, roomId, users, hp, sr) ==
    LET presence == users[c]
        ob1 == Emit(NoEvents, c, "user-color", presence.color)
        ob2 == Emit(ob1, c, "user-instrument", presence.instrument)
        ob3 == Emit(ob2, c, "room-users", users)
        ob4 == Emit(ob3, c, "historical-paths", [paths |-> pathsArray(hp, roomId)])
        ob5 == Emit(ob4, c, "saved-selected-paths",
                    [selectedPaths |-> selectedPathsArray(hp, roomId)])
    IN  BroadcastTo(ob5, sr, roomId, c, "user-joined", presence)

(***************************************************************************)
(* socket.on('join-room') (server.js:81-165).                              *)
(***************************************************************************)
JoinRoom(c, roomId, rnd, budget) ==
    /\ status[c] = "open"
    /\ joins < budget
    /\ joins' = joins + 1
    /\ LET left == IF currentRoom[c] # Null
                   THEN removeUserFromRoom(rooms, roomColors, currentRoom[c], c)
                   ELSE [ rooms |-> rooms, roomColors |-> roomColors ]
           sr1 == IF currentRoom[c] # Null
                  THEN SocketLeave(sockRooms, c, currentRoom[c])
                  ELSE sockRooms
           sr2 == SocketJoin(sr1, c, roomId)
           rooms1 == IF MapHas(left.rooms, roomId)
                     THEN left.rooms
                     ELSE MapSet(left.rooms, roomId, [users |-> EmptyMap])
           alloc == getAvailableColor(left.roomColors, roomId, rnd)
           users == MapSet(rooms1[roomId].users, c, newPresence(c, alloc.color))
       IN  /\ currentRoom' = [currentRoom EXCEPT ![c] = roomId]
           /\ sockRooms' = sr2
           /\ userColor' = [userColor EXCEPT ![c] = alloc.color]
           /\ rooms' = MapSet(rooms1, roomId, [users |-> users])
           /\ roomColors' = alloc.roomColors
           /\ outbox' = joinRoomEmits(c, roomId, users, historicalPaths, sr2)
    /\ moves' = [moves EXCEPT ![c] = << >>]
    /\ lastEvent' = [type |-> "join-room", id |-> c, room |-> currentRoom[c],
                     arg |-> roomId]
    /\ UNCHANGED << status, historicalPaths, saves, lastSaved >>

(***************************************************************************)
(* socket.on('disconnect') (server.js:283-297).  socket.io has taken the   *)
(* socket out of all its rooms before the handler runs.                    *)
(***************************************************************************)
Disconnect(c) ==
    /\ status[c] = "open"
    /\ status' = [status EXCEPT ![c] = "closed"]
    /\ sockRooms' = [sockRooms EXCEPT ![c] = {}]
    /\ IF currentRoom[c] # Null
       THEN LET left == removeUserFromRoom(rooms, roomColors, currentRoom[c], c)
            IN  /\ rooms' = left.rooms
                /\ outbox' = BroadcastTo(NoEvents, sockRooms', currentRoom[c], c,
                                         "user-left", c)
                /\ roomColors' = IF userColor[c] # Null
                                 THEN releaseColor(left.roomColors, currentRoom[c],
                                                   userColor[c])
                                 ELSE left.roomColors
       ELSE /\ outbox' = NoEvents
            /\ UNCHANGED << rooms, roomColors >>
    /\ lastEvent' = [type |-> "disconnect", id |-> c, room |-> currentRoom[c],
                     arg |-> Null]
    /\ UNCHANGED << currentRoom, userColor, historicalPaths, moves, joins, saves,
                    lastSaved >>

\* A trail that is never truncated.
pushTrail_unbounded(trail, wordIndex) == Append(trail, wordIndex)

(***************************************************************************)
(* socket.on('move') (server.js:168-195).  budget bounds the accepted      *)
(* moves of one Presence.                                                  *)
(***************************************************************************)
TrailLimit == 50

\* user.trail.push(wordIndex); if (user.trail.length > 50) user.trail.shift();
pushTrail(trail, wordIndex) ==
    LET pushed == Append(trail, wordIndex)
    IN  IF Len(pushed) > TrailLimit THEN Tail(pushed) ELSE pushed

HasPresence(rms, roomId, socketId) ==
    /\ MapHas(rms, roomId)
    /\ MapHas(rms[roomId].users, socketId)

Move(c, data, budget) ==
    /\ status[c] = "open"
    /\ lastEvent' = [type |-> "move", id |-> c, room |-> currentRoom[c],
                     arg |-> data]
    /\ IF currentRoom[c] = Null \/ ~HasPresence(rooms, currentRoom[c], c)
       THEN /\ outbox' = NoEvents
            /\ UNCHANGED << rooms, moves >>
       ELSE /\ Len(moves[c]) < budget
            /\ LET room == rooms[currentRoom[c]]
                   user == room.users[c]
                   user1 == [user EXCEPT !.position = data.wordIndex,
                                         !.trail = pushTrail(@, data.wordIndex)]
               IN  /\ rooms' = MapSet(rooms, currentRoom[c],
                                      [users |-> MapSet(room.users, c, user1)])
                   /\ outbox' = BroadcastTo(NoEvents, sockRooms, currentRoom[c], c,
                                    "user-moved",
                                    [ id |-> c, color |-> user.color,
                                      instrument |-> user.instrument,
                                      position |-> data.wordIndex,
                                      line |-> data.line,
                                      positionInLine |-> data.positionInLine ])
            /\ moves' = [moves EXCEPT ![c] = Append(@, data.wordIndex)]
    /\ UNCHANGED << status, currentRoom, userColor, roomColors, historicalPaths,
                    sockRooms, joins, saves, lastSaved >>

\* select-emit without the test of the current room and of the Presence:
\* the selection goes to every other open socket.
SelectEmit_unguarded(c, data) ==
    /\ status[c] = "open"
    /\ lastEvent' = [type |-> "select-emit", id |-> c, room |-> currentRoom[c],
                     arg |-> data]
    /\ outbox' = [d \in Conns |->
                     IF d # c /\ status[d] = "open"
                     THEN << [ event |-> "select-receive",
                               payload |-> [ id |-> c, color |-> userColor[c],
                                             position |-> data.wordIndex,
                                             line |-> data.line,
                                             positionInLine |-> data.positionInLine,
                                             text |-> data.text ] ] >>
                     ELSE << >>]
    /\ UNCHANGED << status, currentRoom, userColor, rooms, roomColors,
                    historicalPaths, sockRooms, moves, joins, saves, lastSaved >>

(***************************************************************************)
(* socket.on('select-emit') (server.js:198-227).                           *)
(***************************************************************************)
SelectEmit(c, data) ==
    /\ status[c] = "open"
    /\ lastEvent' = [type |-> "select-emit", id |-> c, room |-> currentRoom[c],
                     arg |-> data]
    /\ IF currentRoom[c] = Null \/ ~HasPresence(rooms, currentRoom[c], c)
       THEN outbox' = NoEvents
       ELSE LET user == rooms[currentRoom[c]].users[c]
            IN  outbox' = BroadcastTo(NoEvents, sockRooms, currentRoom[c], c,
                              "select-receive",
                              [ id |-> c, color |-> user.color,
                                position |-> data.wordIndex,
                                line |-> data.line,
                                positionInLine |-> data.positionInLine,
                                text |-> data.text ])
    /\ UNCHANGED << status, currentRoom, userColor, rooms, roomColors,
                    historicalPaths, sockRooms, moves, joins, saves, lastSaved >>

(***************************************************************************)
(* The object historicalPaths keeps per room, as the sequence of its       *)
(* entries in insertion order (the order Object.entries lists them in).    *)
(***************************************************************************)
EntryIndex(roomPaths, userId) ==
    IF \E i \in 1..Len(roomPaths) : roomPaths[i].userId = userId
    THEN CHOOSE i \in 1..Len(roomPaths) : roomPaths[i].userId = userId
    ELSE 0

\* A save that starts the room's object afresh every time.
EntrySet_resetRoom(roomPaths, userId, data) ==
    << [userId |-> userId, data |-> data] >>

\* A save that appends the new path to the path of the record it finds.
EntrySet_appendPath(roomPaths, userId, data) ==
    LET i == EntryIndex(roomPaths, userId)
    IN  IF i = 0
        THEN Append(roomPaths, [userId |-> userId, data |-> data])
        ELSE [roomPaths EXCEPT ![i] =
                 [ userId |-> userId,
                   data |-> [data EXCEPT !.path = roomPaths[i].data.path \o @] ]]

\* roomPaths[userId] = data
EntrySet(roomPaths, userId, data) ==
    LET i == EntryIndex(roomPaths, userId)
    IN  IF i = 0
        THEN Append(roomPaths, [userId |-> userId, data |-> data])
        ELSE [roomPaths EXCEPT ![i] = [userId |-> userId, data |-> data]]

(***************************************************************************)
(* socket.on('save-path') (server.js:230-252).                             *)
(***************************************************************************)
SavePath(c, data) ==
    /\ status[c] = "open"
    /\ lastEvent' = [type |-> "save-path", id |-> c, room |-> currentRoom[c],
                     arg |-> data]
    /\ outbox' = NoEvents
    /\ IF currentRoom[c] = Null \/ ~HasPresence(rooms, currentRoom[c], c)
       THEN UNCHANGED << historicalPaths, saves, lastSaved >>
       ELSE /\ saves < MaxSaves
            /\ LET user == rooms[currentRoom[c]].users[c]
                   hp1 == IF MapHas(historicalPaths, currentRoom[c])
                          THEN historicalPaths
                          ELSE MapSet(historicalPaths, currentRoom[c], << >>)
                   roomPaths == EntrySet(hp1[currentRoom[c]], c,
                                         [color |-> user.color, path |-> data.path])
               IN  historicalPaths' = MapSet(hp1, currentRoom[c], roomPaths)
            /\ saves' = saves + 1
            /\ lastSaved' = [lastSaved EXCEPT ![currentRoom[c]][c] = << data.path >>]
    /\ UNCHANGED << status, currentRoom, userColor, rooms, roomColors, sockRooms,
                    moves, joins >>

\* save-selected-words that writes a whole new record, as save-path does.
SaveSelectedWords_freshRecord(c, data) ==
    /\ status[c] = "open"
    /\ lastEvent' = [type |-> "save-selected-words", id |-> c, room |-> currentRoom[c],
                     arg |-> data]
    /\ outbox' = NoEvents
    /\ IF currentRoom[c] = Null \/ ~HasPresence(rooms, currentRoom[c], c)
       THEN UNCHANGED << historicalPaths, saves >>
       ELSE /\ saves < MaxSaves
            /\ saves' = saves + 1
            /\ LET user == rooms[currentRoom[c]].users[c]
                   hp1 == IF MapHas(historicalPaths, currentRoom[c])
                          THEN historicalPaths
                          ELSE MapSet(historicalPaths, currentRoom[c], << >>)
                   rp2 == EntrySet(hp1[currentRoom[c]], c,
                                   [ color |-> user.color, path |-> << >>,
                                     selectedWords |-> data.selectedWords ])
               IN  historicalPaths' = MapSet(hp1, currentRoom[c], rp2)
    /\ UNCHANGED << status, currentRoom, userColor, rooms, roomColors, sockRooms,
                    moves, joins, lastSaved >>

(***************************************************************************)
(* socket.on('save-selected-words') (server.js:255-280).                   *)
(***************************************************************************)
SaveSelectedWords(c, data) ==
    /\ status[c] = "open"
    /\ lastEvent' = [type |-> "save-selected-words", id |-> c, room |-> currentRoom[c],
                     arg |-> data]
    /\ outbox' = NoEvents
    /\ IF currentRoom[c] = Null \/ ~HasPresence(rooms, currentRoom[c], c)
       THEN UNCHANGED << historicalPaths, saves >>
       ELSE /\ saves < MaxSaves
            /\ saves' = saves + 1
            /\ LET user == rooms[currentRoom[c]].users[c]
                   hp1 == IF MapHas(historicalPaths, currentRoom[c])
                          THEN historicalPaths
                          ELSE MapSet(historicalPaths, currentRoom[c], << >>)
                   rp1 == IF EntryIndex(hp1[currentRoom[c]], c) = 0
                          THEN EntrySet(hp1[currentRoom[c]], c,
                                        [color |-> user.color, path |-> << >>])
                          ELSE hp1[currentRoom[c]]
                   old == rp1[EntryIndex(rp1, c)].data
                   rp2 == EntrySet(rp1, c,
                                   [ color |-> old.color, path |-> old.path,
                                     selectedWords |-> data.selectedWords ])
               IN  historicalPaths' = MapSet(hp1, currentRoom[c], rp2)
    /\ UNCHANGED << status, currentRoom, userColor, rooms, roomColors, sockRooms,
                    moves, joins, lastSaved >>

(***************************************************************************)
(* The inbound events the clients send.                                    *)
(***************************************************************************)
MoveData == [wordIndex : WordIndexes, line : {1}, positionInLine : {2}]
SelectData == [wordIndex : WordIndexes, line : {1}, positionInLine : {2},
               text : {"word"}]

\* The word index of the n-th move a client sends in SpecTrail.
TrailWordIndex(n) == (n * n) % 11

MoveDataAt(n) == [wordIndex |-> TrailWordIndex(n), line |-> 1, positionInLine |-> 2]

\* The connections of Spec, SpecHistory and SpecColor; SpecTrail has one.
Pair == {"s1", "s2"}

\* Presence and broadcast: connections join, move, select and leave.
Next ==
    \/ \E c \in Pair : Connect(c)
    \/ \E c \in Pair, roomId \in Rooms, rnd \in RandomDraws :
          JoinRoom(c, roomId, rnd, MaxJoins)
    \/ \E c \in Pair, data \in MoveData : Move(c, data, MaxMovesMain)
    \/ \E c \in Pair, data \in SelectData : SelectEmit(c, data)
    \/ \E c \in Pair : Disconnect(c)

Spec == Init /\ [][Next]_vars

\* The path history: connections join, save and leave.
NextHistory ==
    \/ \E c \in Pair : Connect(c)
    \/ \E c \in Pair, roomId \in Rooms, rnd \in RandomDraws :
          JoinRoom(c, roomId, rnd, MaxHistoryJoins)
    \/ \E c \in Pair, path \in Paths : SavePath(c, [path |-> path])
    \/ \E c \in Pair : SaveSelectedWords(c, [selectedWords |-> <<"dog">>])
    \/ \E c \in Pair : Disconnect(c)

SpecHistory == Init /\ [][NextHistory]_vars

\* The trail: one connection joins and moves more than TrailLimit times.
NextTrail ==
    \/ Connect("s1")
    \/ \E roomId \in Rooms, rnd \in RandomDraws : JoinRoom("s1", roomId, rnd, MaxJoins)
    \/ Move("s1", MoveDataAt(Len(moves["s1"])), MaxMoves)
    \/ Disconnect("s1")

SpecTrail == Init /\ [][NextTrail]_vars

\* The colors of one room: connections join it again and again, and leave.
NextColor ==
    \/ \E c \in Pair : Connect(c)
    \/ \E c \in Pair, rnd \in RandomDraws : JoinRoom(c, "dog", rnd, MaxColorJoins)
    \/ \E c \in Pair : Disconnect(c)

SpecColor == Init /\ [][NextColor]_vars

\* The saves alone: connections join and save, and none leaves.
NextSave ==
    \/ \E c \in Pair : Connect(c)
    \/ \E c \in Pair, roomId \in Rooms, rnd \in RandomDraws :
          JoinRoom(c, roomId, rnd, MaxHistoryJoins)
    \/ \E c \in Pair, path \in Paths : SavePath(c, [path |-> path])
    \/ \E c \in Pair, sw \in SelectedWordLists :
          SaveSelectedWords(c, [selectedWords |-> sw])

SpecSave == Init /\ [][NextSave]_vars

\* The events the server drops: a connection joins, saves and leaves, and the
\* connections that are in no room send every event a room is needed for.
NextDrop ==
    \/ \E c \in Pair : Connect(c)
    \/ \E c \in Pair, roomId \in Rooms, rnd \in RandomDraws :
          JoinRoom(c, roomId, rnd, MaxDropJoins)
    \/ \E c \in Pair, data \in MoveData :
          currentRoom[c] = Null /\ Move(c, data, MaxMovesMain)
    \/ \E c \in Pair, data \in SelectData :
          currentRoom[c] = Null /\ SelectEmit(c, data)
    \/ \E c \in Pair, path \in Paths : SavePath(c, [path |-> path])
    \/ \E c \in Pair, sw \in SelectedWordLists :
          SaveSelectedWords(c, [selectedWords |-> sw])
    \/ \E c \in Pair : Disconnect(c)

SpecDrop == Init /\ [][NextDrop]_vars

(***************************************************************************)
(* getAvailableColor on its own: the used-color set of room "dog" starts   *)
(* as any set of palette colors (the sets join-room builds up, one color   *)
(* per join), or does not exist, and the function is called for a room.    *)
(***************************************************************************)
PaletteColors == {colorPalette[i] : i \in 1..Len(colorPalette)}

InitAlloc ==
    /\ status = [c \in Conns |-> "idle"]
    /\ currentRoom = [c \in Conns |-> Null]
    /\ userColor = [c \in Conns |-> Null]
    /\ rooms = EmptyMap
    /\ roomColors \in {EmptyMap} \cup
                      {MapSet(EmptyMap, "dog", used) : used \in SUBSET PaletteColors}
    /\ historicalPaths = EmptyMap
    /\ sockRooms = [c \in Conns |-> {}]
    /\ outbox = NoEvents
    /\ lastEvent = [type |-> "none", id |-> Null, room |-> Null, arg |-> Null]
    /\ moves = [c \in Conns |-> << >>]
    /\ joins = 0
    /\ saves = 0
    /\ lastSaved = [r \in Rooms |-> [c \in Conns |-> << >>]]

\* One call getAvailableColor(roomId); lastEvent keeps the used-color set the
\* call found and the color it returned.
GetAvailableColor(roomId, rnd) ==
    LET result == getAvailableColor(roomColors, roomId, rnd)
    IN  /\ joins < MaxAllocCalls
        /\ joins' = joins + 1
        /\ roomColors' = result.roomColors
        /\ lastEvent' = [ type |-> "getAvailableColor", id |-> Null, room |-> roomId,
                          arg |-> [ usedBefore |-> IF MapHas(roomColors, roomId)
                                                   THEN roomColors[roomId] ELSE {},
                                    others |-> MapDelete(roomColors, roomId),
                                    color |-> result.color ] ]
        /\ UNCHANGED << status, currentRoom, userColor, rooms, historicalPaths,
                        sockRooms, outbox, moves, saves, lastSaved >>

NextAlloc == \E roomId \in Rooms, rnd \in RandomDraws : GetAvailableColor(roomId, rnd)

SpecAlloc == InitAlloc /\ [][NextAlloc]_vars

(***************************************************************************)
(* Vocabulary of the claims.                                               *)
(***************************************************************************)
\* The connections that have a Presence in room r.
Members(r) == IF MapHas(rooms, r) THEN DOMAIN rooms[r].users ELSE {}

\* The events of one kind the last handler sent to connection d.
Received(d, event) ==
    { i \in 1..Len(outbox[d]) : outbox[d][i].event = event }

\* The last handler was join-room(B) of a connection joined to a room A # B.
IsRoomSwitch ==
    /\ lastEvent.type = "join-room"
    /\ lastEvent.room # Null
    /\ lastEvent.arg # lastEvent.room

\* The last handler was a move of a connection that has its Presence.
IsAcceptedMove == lastEvent.type = "move" /\ lastEvent.room # Null

(***************************************************************************)
(* C1: after every join-room and disconnect a room id is a key of rooms if *)
(* and only if at least one Presence is stored in that room, the Presences *)
(* being those of the open connections whose current room it is; a room    *)
(* left by its last participant is gone after that event.                  *)
(***************************************************************************)
C1_RoomExistsIffOccupied ==
    \A r \in Rooms :
        /\ MapHas(rooms, r) <=> (\E c \in Conns : HasPresence(rooms, r, c))
        /\ Members(r) = { c \in Conns : status[c] = "open" /\ currentRoom[c] = r }

\* A disconnect or a room switch has just emptied a room, and another room lives.
C1_Witness ==
    /\ lastEvent.type \in {"disconnect", "join-room"}
    /\ lastEvent.room # Null
    /\ ~MapHas(rooms, lastEvent.room)
    /\ DOMAIN rooms # {}

(***************************************************************************)
(* C3: when a connection joined to room A sends join-room(B), B another    *)
(* room, every other connection joined to room A receives user-left with   *)
(* that connection's id.                                                   *)
(***************************************************************************)
C3_SwitchSendsUserLeft ==
    IsRoomSwitch =>
        \A d \in Members(lastEvent.room) \ {lastEvent.id} :
            \E i \in Received(d, "user-left") : outbox[d][i].payload = lastEvent.id

(***************************************************************************)
(* C4, as stated: a connection that joins a room with no other participant *)
(* receives room-users = {}.                                               *)
(***************************************************************************)
JoinedAlone ==
    /\ lastEvent.type = "join-room"
    /\ Members(lastEvent.arg) = {lastEvent.id}

C4_RoomUsersEmpty ==
    JoinedAlone =>
        \A i \in Received(lastEvent.id, "room-users") :
            outbox[lastEvent.id][i].payload = EmptyMap

(***************************************************************************)
(* C4, amended: a connection that joins a room with no other participant   *)
(* receives one room-users event, whose payload is the Presence map of the *)
(* room with the joiner in it: exactly one entry, the joiner's own fresh   *)
(* Presence.                                                               *)
(***************************************************************************)
C4_RoomUsersIsOwnPresence ==
    JoinedAlone =>
        LET c == lastEvent.id
        IN  /\ Cardinality(Received(c, "room-users")) = 1
            /\ \A i \in Received(c, "room-users") :
                  /\ DOMAIN outbox[c][i].payload = {c}
                  /\ outbox[c][i].payload[c] =
                        [ id |-> c, color |-> userColor[c],
                          instrument |-> colorInstrumentMap[userColor[c]],
                          position |-> 0, trail |-> << >> ]

C4_Witness == JoinedAlone /\ Received(lastEvent.id, "room-users") # {}

(***************************************************************************)
(* C6: a user-moved or select-receive event is delivered only to           *)
(* connections whose current room is the current room of the sender.       *)
(***************************************************************************)
C6_RoomIsolation ==
    \A d \in Conns :
        \A i \in Received(d, "user-moved") \cup Received(d, "select-receive") :
            /\ status[d] = "open"
            /\ currentRoom[d] = currentRoom[outbox[d][i].payload.id]

\* A connection that switched rooms moves or selects in its new room while
\* another connection is still in the room it left, and gets nothing.
C6_Witness ==
    /\ lastEvent.type \in {"move", "select-emit"}
    /\ lastEvent.room # Null
    /\ joins = MaxJoins
    /\ \E d \in Conns \ {lastEvent.id} :
          /\ status[d] = "open"
          /\ currentRoom[d] \in Rooms \ {lastEvent.room}
          /\ lastEvent.room \in sockRooms[lastEvent.id]
          /\ outbox[d] = << >>

(***************************************************************************)
(* C8: when a connection stops being a member of room R, by disconnecting  *)
(* or by sending join-room for another room while joined to R, and R still *)
(* exists, the color it held is not in R's used-color set after that event *)
(* (provided no remaining Presence of R has that color).                   *)
(***************************************************************************)
C8_ColorReleasedOnLeave ==
    [][ \A c \in Conns :
          ( /\ lastEvent'.type \in {"disconnect", "join-room"}
            /\ lastEvent'.id = c
            /\ lastEvent'.room # Null
            /\ lastEvent'.type = "join-room" => lastEvent'.arg # lastEvent'.room
            /\ MapHas(rooms', lastEvent'.room)
            /\ MapHas(roomColors', lastEvent'.room)
            /\ \A d \in DOMAIN rooms'[lastEvent'.room].users :
                  rooms'[lastEvent'.room].users[d].color # userColor[c] )
          => userColor[c] \notin roomColors'[lastEvent'.room] ]_vars

(***************************************************************************)
(* C9: every connection id is a key of the Presence map of at most one     *)
(* room; after join-room(B) the connection has no Presence in any other    *)
(* room and has a Presence in B with position 0 and an empty trail.        *)
(***************************************************************************)
C9_OnePresencePerConnection ==
    /\ \A c \in Conns : Cardinality({ r \in Rooms : c \in Members(r) }) <= 1
    /\ lastEvent.type = "join-room" =>
          LET c == lastEvent.id
              B == lastEvent.arg
          IN  /\ \A r \in Rooms \ {B} : c \notin Members(r)
              /\ c \in Members(B)
              /\ rooms[B].users[c].position = 0
              /\ rooms[B].users[c].trail = << >>

\* A connection has just switched from a room that still has a participant
\* to another room.
C9_Witness ==
    /\ IsRoomSwitch
    /\ Members(lastEvent.room) # {}
    /\ lastEvent.id \in Members(lastEvent.arg)

(***************************************************************************)
(* C10: when X, with a Presence in room R, sends move with wordIndex w,    *)
(* every other connection joined to R receives exactly one user-moved      *)
(* event, with id = X and position = w, and X receives no event.           *)
(***************************************************************************)
C10_MoveFanOut ==
    IsAcceptedMove =>
        LET X == lastEvent.id
            w == lastEvent.arg.wordIndex
        IN  /\ outbox[X] = << >>
            /\ \A d \in Members(lastEvent.room) \ {X} :
                  /\ Cardinality(Received(d, "user-moved")) = 1
                  /\ \A i \in Received(d, "user-moved") :
                        /\ outbox[d][i].payload.id = X
                        /\ outbox[d][i].payload.position = w

C10_Witness ==
    /\ IsAcceptedMove
    /\ Members(lastEvent.room) \ {lastEvent.id} # {}

(***************************************************************************)
(* C2: in every room whose number of Presences is at most the palette size *)
(* no two Presences have the same color.                                   *)
(***************************************************************************)
C2_UniqueColors ==
    \A r \in DOMAIN rooms :
        Cardinality(Members(r)) <= Len(colorPalette) =>
            \A c, d \in Members(r) :
                c # d => rooms[r].users[c].color # rooms[r].users[d].color

(***************************************************************************)
(* C5: after C has saved a path in room R, every later join-room(R)        *)
(* receives a historical-paths event with an entry whose userId is C and   *)
(* whose path is the last path C saved in R, whatever happened to C and to *)
(* room R in between; and no event removes a record of historicalPaths.    *)
(***************************************************************************)
HistoricalPathsSent ==
    lastEvent.type = "join-room" =>
        LET j == lastEvent.id
            R == lastEvent.arg
        IN  /\ Cardinality(Received(j, "historical-paths")) = 1
            /\ \A c \in Conns :
                  lastSaved[R][c] # << >> =>
                      \A i \in Received(j, "historical-paths") :
                          \E k \in 1..Len(outbox[j][i].payload.paths) :
                              /\ outbox[j][i].payload.paths[k].userId = c
                              /\ outbox[j][i].payload.paths[k].path = lastSaved[R][c][1]

RecordsKept ==
    \A r \in DOMAIN historicalPaths :
        /\ MapHas(historicalPaths', r)
        /\ \A i \in 1..Len(historicalPaths[r]) :
              EntryIndex(historicalPaths'[r], historicalPaths[r][i].userId) # 0

Min(a, b) == IF a <= b THEN a ELSE b

C7_TrailIsLastFifty ==
    \A r \in Rooms : \A c \in Members(r) :
        LET trail == rooms[r].users[c].trail
            N == Len(moves[c])
        IN  /\ Len(trail) <= 50
            /\ Len(trail) = Min(N, 50)
            /\ \A i \in 1..Len(trail) : trail[i] = moves[c][N - Len(trail) + i]
            /\ N > 50 => Len(trail) = 50

C7_Witness ==
    \E r \in Rooms : \E c \in Members(r) : Len(moves[c]) > 50

(***************************************************************************)
(* C11: when Y joins room R, every connection already joined to R receives *)
(* exactly one user-joined event, with Y's id and color, Y receives none,  *)
(* and the room-users payload sent to Y holds the Presence of every        *)
(* connection that was already in R.                                       *)
(***************************************************************************)
C11_JoinFanOut ==
    lastEvent.type = "join-room" =>
        LET Y == lastEvent.id
            R == lastEvent.arg
            others == Members(R) \ {Y}
        IN  /\ Received(Y, "user-joined") = {}
            /\ \A d \in others :
                  /\ Cardinality(Received(d, "user-joined")) = 1
                  /\ \A i \in Received(d, "user-joined") :
                        /\ outbox[d][i].payload.id = Y
                        /\ outbox[d][i].payload.color = userColor[Y]
            /\ Cardinality(Received(Y, "room-users")) = 1
            /\ \A i \in Received(Y, "room-users") :
                  \A d \in others :
                      /\ d \in DOMAIN outbox[Y][i].payload
                      /\ outbox[Y][i].payload[d] = rooms[R].users[d]

C11_Witness ==
    /\ lastEvent.type = "join-room"
    /\ Members(lastEvent.arg) \ {lastEvent.id} # {}

(***************************************************************************)
(* C12: when a joined connection X disconnects, every connection that      *)
(* remains joined to X's room receives exactly one user-left event, with   *)
(* X's id, and X's Presence is no longer in the room.                      *)
(***************************************************************************)
C12_DisconnectFanOut ==
    (lastEvent.type = "disconnect" /\ lastEvent.room # Null) =>
        LET X == lastEvent.id
        IN  /\ X \notin Members(lastEvent.room)
            /\ outbox[X] = << >>
            /\ \A d \in Members(lastEvent.room) :
                  /\ Cardinality(Received(d, "user-left")) = 1
                  /\ \A i \in Received(d, "user-left") : outbox[d][i].payload = X

C12_Witness ==
    /\ lastEvent.type = "disconnect"
    /\ lastEvent.room # Null
    /\ Members(lastEvent.room) # {}

(***************************************************************************)
(* C14: a used-color set exists only for rooms of the room registry; the   *)
(* set of a room is deleted with the room, so that a connection that joins *)
(* an empty room id finds no color used: after its join the used set holds *)
(* its own color only.                                                     *)
(***************************************************************************)
C14_NoDanglingColorSets ==
    /\ DOMAIN roomColors \subseteq DOMAIN rooms
    /\ JoinedAlone => roomColors[lastEvent.arg] = {userColor[lastEvent.id]}

\* A connection joins, alone, a room that another connection had joined and
\* left by disconnecting.
C14_Witness ==
    /\ JoinedAlone
    /\ \E c \in Conns \ {lastEvent.id} :
          /\ status[c] = "closed"
          /\ currentRoom[c] = lastEvent.arg

(***************************************************************************)
(* The PathHistoryRecord of the pair (room, connection), if there is one.  *)
(***************************************************************************)
HasRecord(hp, r, c) == MapHas(hp, r) /\ EntryIndex(hp[r], c) # 0
RecordOf(hp, r, c) == hp[r][EntryIndex(hp[r], c)].data

(***************************************************************************)
(* C13: once a connection has disconnected, no room's Presence map holds   *)
(* its id; and the disconnect leaves every PathHistoryRecord as it was.    *)
(***************************************************************************)
NoPresenceOfClosed ==
    \A c \in Conns :
        status[c] = "closed" => \A r \in DOMAIN rooms : c \notin Members(r)

DisconnectKeepsHistory ==
    (\E c \in Conns : status[c] = "open" /\ status'[c] = "closed")
        => historicalPaths' = historicalPaths

C13_DisconnectCleansPresenceOnly ==
    []NoPresenceOfClosed /\ [][DisconnectKeepsHistory]_vars

\* A connection that had joined a room and saved there has disconnected.
C13_Witness ==
    /\ lastEvent.type = "disconnect"
    /\ lastEvent.room # Null
    /\ HasRecord(historicalPaths, lastEvent.room, lastEvent.id)

(***************************************************************************)
(* C15: getAvailableColor always returns a palette color.  When the used-  *)
(* color set of the room is not the whole palette, the returned color was  *)
(* not in the set before the call and is in it after, and nothing else     *)
(* changes in the set; when the set is the whole palette, the call leaves  *)
(* it as it was.  The used-color sets of the other rooms do not change.    *)
(***************************************************************************)
C15_GetAvailableColor ==
    lastEvent.type = "getAvailableColor" =>
        LET usedBefore == lastEvent.arg.usedBefore
            color == lastEvent.arg.color
            usedAfter == roomColors[lastEvent.room]
        IN  /\ color \in PaletteColors
            /\ MapDelete(roomColors, lastEvent.room) = lastEvent.arg.others
            /\ IF usedBefore # PaletteColors
               THEN /\ color \notin usedBefore
                    /\ usedAfter = usedBefore \cup {color}
               ELSE usedAfter = usedBefore

\* A call that found some colors used, and a call that found them all used.
C15_Witness ==
    /\ lastEvent.type = "getAvailableColor"
    /\ lastEvent.room = "dog"
    /\ lastEvent.arg.usedBefore # {}
    /\ roomColors["dog"] = PaletteColors
    /\ lastEvent.arg.usedBefore # PaletteColors

C15_WitnessExhausted ==
    /\ lastEvent.type = "getAvailableColor"
    /\ lastEvent.arg.usedBefore = PaletteColors

(***************************************************************************)
(* C16: a move, select-emit, save-path or save-selected-words event from a *)
(* connection that has no current room, or whose Presence is not in its    *)
(* current room any more, changes nothing in the server's state and sends  *)
(* no event to anyone.                                                     *)
(***************************************************************************)
RoomEvents == {"move", "select-emit", "save-path", "save-selected-words"}

DroppedEvent ==
    /\ lastEvent'.type \in RoomEvents
    /\ \/ currentRoom[lastEvent'.id] = Null
       \/ ~HasPresence(rooms, currentRoom[lastEvent'.id], lastEvent'.id)

C16_DroppedEventsInert ==
    [][ DroppedEvent =>
            /\ UNCHANGED << status, currentRoom, userColor, rooms, roomColors,
                            historicalPaths, sockRooms >>
            /\ outbox' = NoEvents ]_vars

\* The server has dropped an event of a connection that is in no room, while
\* another connection is in a room and has a record there.
C16_Witness ==
    /\ lastEvent.type \in RoomEvents
    /\ currentRoom[lastEvent.id] = Null
    /\ \E d \in Conns \ {lastEvent.id} :
          /\ status[d] = "open"
          /\ currentRoom[d] # Null
          /\ HasRecord(historicalPaths, currentRoom[d], d)

(***************************************************************************)
(* The step is the handling of an event of the given type that the server  *)
(* accepts: its sender has a Presence in its current room.                 *)
(***************************************************************************)
Accepted(type) ==
    /\ lastEvent'.type = type
    /\ lastEvent'.room # Null
    /\ HasPresence(rooms, lastEvent'.room, lastEvent'.id)

\* Every record but the one of (R, C) is what it was, and no record appears.
OtherRecordsUnchanged(R, C) ==
    \A r \in Rooms, c \in Conns :
        << r, c >> # << R, C >> =>
            /\ HasRecord(historicalPaths', r, c) <=> HasRecord(historicalPaths, r, c)
            /\ HasRecord(historicalPaths, r, c) =>
                   RecordOf(historicalPaths', r, c) = RecordOf(historicalPaths, r, c)

(***************************************************************************)
(* C17: after an accepted save-path with path p from connection C in room  *)
(* R, the path of the record (R, C) is exactly p, whatever it was before,  *)
(* and the path of every other record is what it was.                      *)
(***************************************************************************)
C17_SavePathReplaces ==
    [][ Accepted("save-path") =>
            LET R == lastEvent'.room
                C == lastEvent'.id
            IN  /\ HasRecord(historicalPaths', R, C)
                /\ RecordOf(historicalPaths', R, C).path = lastEvent'.arg.path
                /\ \A r \in Rooms, c \in Conns :
                      << r, c >> # << R, C >> =>
                          /\ HasRecord(historicalPaths', r, c)
                                 <=> HasRecord(historicalPaths, r, c)
                          /\ HasRecord(historicalPaths, r, c) =>
                                 RecordOf(historicalPaths', r, c).path
                                     = RecordOf(historicalPaths, r, c).path ]_vars

\* The second accepted save is a save-path, and another record exists.
C17_Witness ==
    /\ lastEvent.type = "save-path"
    /\ lastEvent.room # Null
    /\ saves = 2
    /\ HasRecord(historicalPaths, lastEvent.room, lastEvent.id)
    /\ RecordOf(historicalPaths, lastEvent.room, lastEvent.id).path = lastEvent.arg.path
    /\ \E r \in Rooms, c \in Conns :
          /\ << r, c >> # << lastEvent.room, lastEvent.id >>
          /\ HasRecord(historicalPaths, r, c)

(***************************************************************************)
(* C18: an accepted save-selected-words from connection C in room R        *)
(* changes the selected words of the record (R, C) only: a record that     *)
(* exists keeps its path and its color, a record that does not is created  *)
(* with the empty path and the color of C's Presence, and no other record  *)
(* changes.                                                                *)
(***************************************************************************)
C18_SaveSelectedWordsFrame ==
    [][ Accepted("save-selected-words") =>
            LET R == lastEvent'.room
                C == lastEvent'.id
            IN  /\ HasRecord(historicalPaths', R, C)
                /\ RecordOf(historicalPaths', R, C).selectedWords
                       = lastEvent'.arg.selectedWords
                /\ IF HasRecord(historicalPaths, R, C)
                   THEN /\ RecordOf(historicalPaths', R, C).path
                               = RecordOf(historicalPaths, R, C).path
                        /\ RecordOf(historicalPaths', R, C).color
                               = RecordOf(historicalPaths, R, C).color
                   ELSE /\ RecordOf(historicalPaths', R, C).path = << >>
                        /\ RecordOf(historicalPaths', R, C).color
                               = rooms[R].users[C].color
                /\ OtherRecordsUnchanged(R, C) ]_vars

\* Selected words have been saved into a record that held a path.
C18_Witness ==
    /\ lastEvent.type = "save-selected-words"
    /\ lastEvent.room # Null
    /\ HasRecord(historicalPaths, lastEvent.room, lastEvent.id)
    /\ RecordOf(historicalPaths, lastEvent.room, lastEvent.id).path # << >>
    /\ RecordOf(historicalPaths, lastEvent.room, lastEvent.id).selectedWords
           = lastEvent.arg.selectedWords

(***************************************************************************)
(* C19: an accepted save-path from connection C in room R leaves the       *)
(* selected words stored in the record (R, C) as they were.                *)
(***************************************************************************)
C19_SavePathKeepsSelectedWords ==
    [][ Accepted("save-path") =>
            LET R == lastEvent'.room
                C == lastEvent'.id
            IN  ( /\ HasRecord(historicalPaths, R, C)
                  /\ "selectedWords" \in DOMAIN RecordOf(historicalPaths, R, C) )
                => /\ "selectedWords" \in DOMAIN RecordOf(historicalPaths', R, C)
                   /\ RecordOf(historicalPaths', R, C).selectedWords
                          = RecordOf(historicalPaths, R, C).selectedWords ]_vars

(***************************************************************************)
(* C20 as stated: after an accepted save-path or save-selected-words from  *)
(* connection C in room R, the color of the record (R, C) is the color of  *)
(* C's Presence in R.                                                      *)
(***************************************************************************)
C20_StoredColorIsPresenceColor ==
    [][ (Accepted("save-path") \/ Accepted("save-selected-words")) =>
            RecordOf(historicalPaths', lastEvent'.room, lastEvent'.id).color
                = rooms[lastEvent'.room].users[lastEvent'.id].color ]_vars

(***************************************************************************)
(* C20 amended: after an accepted save-path the color of the record (R, C) *)
(* is the color of C's Presence in R; after an accepted save-selected-     *)
(* words it is that color when the save creates the record, and the color  *)
(* the record held before when the record exists.                          *)
(***************************************************************************)
C20_StoredColor ==
    [][ LET R == lastEvent'.room
            C == lastEvent'.id
        IN  /\ Accepted("save-path") =>
                   RecordOf(historicalPaths', R, C).color = rooms[R].users[C].color
            /\ Accepted("save-selected-words") =>
                   RecordOf(historicalPaths', R, C).color
                       = IF HasRecord(historicalPaths, R, C)
                         THEN RecordOf(historicalPaths, R, C).color
                         ELSE rooms[R].users[C].color ]_vars

\* A connection has saved a path, joined the room again with another color
\* and saved selected words: the record holds the color of the first join.
C20_Witness ==
    /\ lastEvent.type = "save-selected-words"
    /\ lastEvent.room # Null
    /\ HasRecord(historicalPaths, lastEvent.room, lastEvent.id)
    /\ RecordOf(historicalPaths, lastEvent.room, lastEvent.id).color
           # rooms[lastEvent.room].users[lastEvent.id].color

=============================================================================
